---- MODULE Spec2Model ----
(***************************************************************************)
(* Model of neilh44/zoho_LLM: the COQL query validator and converter        *)
(* (natural_to_coql.py), the query executor with its token refresh          *)
(* (zoho_coql_executor.py, xc.py) and the conversion stage of the request   *)
(* handler (app.py).                                                        *)
(*                                                                          *)
(* A Python str is modelled as a sequence of one-character strings, and     *)
(* the str methods the validator uses (lower, startswith, in, split,        *)
(* replace, strip, count, int) are operators computing what Python          *)
(* computes.                                                                *)
(***************************************************************************)
EXTENDS Integers, Sequences, FiniteSets, TLC

VARIABLES
    query,          \* validator / converter: the query string under validation
    verdict,        \* outcome of validate_coql_query on query ("none" before)
    vpc,            \* validator position: "idle" | "input" | "validated"
    klass,          \* executor: the class in use, ZohoCoqlExecutor or ZohoCRMHandler
    access_token,   \* executor: self.access_token (NoToken for None)
    pc,             \* executor: position of each execute_coql call
    attempt,        \* executor: 1 up to the first query call's reply, 2 after a 401
    pending,        \* executor: the token of a refresh reply not yet stored
    resp,           \* executor: status of the latest query reply (0 for none)
    calls,          \* executor: the query calls each execute_coql call has sent:
                    \*   whether a token was held, the timeout, the status replied
    refreshes,      \* executor: the token refreshes each call has completed
    outcome,        \* executor: "none" | "returned" | "raised"
    payload,        \* executor: the attempt whose payload was returned (0 for none)
    heldAtEntry,    \* executor: whether a token was held when the call was entered
    cpc,            \* converter: position in convert_to_coql
    reply,          \* converter: the LLM reply, as the value json.loads gives
    query_data,     \* converter: the record _parse_llm_response returned
    apc,            \* request handler: "convert" | "execute" | "responded"
    coql_query,     \* request handler: the query handed to the executor
    status_code,    \* request handler: status of the HTTP response (0 for none)
    llm_calls,      \* converter: LLM completion calls convert_to_coql has made
    body,           \* request handler: the request body, as request.get_json gives it
    stages,         \* request handler: the stages entered, in order
    answer,         \* request handler: the body of the HTTP response
    envelope,       \* request handler: zoho_response, the value execute_coql returned
    summary_calls,  \* processor: the summarization calls made, with their outcome
    result,         \* processor: the value process_response returned
    record,         \* processor: a record of the envelope's data list
    formatted_record \* processor: the formatted copy of record

vvars == <<query, verdict, vpc>>

evars == <<klass, access_token, pc, attempt, pending, resp, calls, refreshes,
           outcome, payload, heldAtEntry>>

cvars == <<cpc, reply, query_data, apc, coql_query, status_code, llm_calls>>

hvars == <<body, stages, answer, envelope, summary_calls, result>>

fvars == <<record, formatted_record>>

vars == <<vvars, evars, cvars, hvars, fvars>>

----------------------------------------------------------------------------
(* Python str primitives                                                    *)

UpperLetters ==
    <<"A","B","C","D","E","F","G","H","I","J","K","L","M",
      "N","O","P","Q","R","S","T","U","V","W","X","Y","Z">>

LowerLetters ==
    <<"a","b","c","d","e","f","g","h","i","j","k","l","m",
      "n","o","p","q","r","s","t","u","v","w","x","y","z">>

Whitespace == {" ", "\n", "\t"}

Digits == <<"0","1","2","3","4","5","6","7","8","9">>

\* str.lower() on one character
LowerChar(c) ==
    IF \E i \in 1..26 : UpperLetters[i] = c
    THEN LowerLetters[CHOOSE i \in 1..26 : UpperLetters[i] = c]
    ELSE c

\* str.lower()
Lower(s) == [i \in 1..Len(s) |-> LowerChar(s[i])]

\* p occurs in s at position i
MatchAt(s, p, i) ==
    /\ i >= 1
    /\ i + Len(p) - 1 <= Len(s)
    /\ \A k \in 1..Len(p) : s[i + k - 1] = p[k]

\* str.find(p, i): first position >= i where p occurs in s, 0 when there is none
Find(s, p, i) ==
    IF \E j \in i..Len(s) : MatchAt(s, p, j)
    THEN CHOOSE j \in i..Len(s) :
            MatchAt(s, p, j) /\ \A k \in i..(j - 1) : ~MatchAt(s, p, k)
    ELSE 0

\* s.startswith(p)
StartsWith(s, p) == MatchAt(s, p, 1)

\* p in s
Contains(s, p) == Find(s, p, 1) # 0

\* s.split(p)[0]
SplitHead(s, p) ==
    LET f == Find(s, p, 1)
    IN  IF f = 0 THEN s ELSE SubSeq(s, 1, f - 1)

\* s.split(p)[1], for s that contains p
SplitSecond(s, p) ==
    LET f == Find(s, p, 1)
        b == f + Len(p)
        g == Find(s, p, b)
    IN  IF g = 0 THEN SubSeq(s, b, Len(s)) ELSE SubSeq(s, b, g - 1)

RECURSIVE CountFrom(_, _, _)
CountFrom(s, p, i) ==
    LET f == Find(s, p, i)
    IN  IF f = 0 THEN 0 ELSE 1 + CountFrom(s, p, f + Len(p))

\* s.count(p): non-overlapping occurrences
Count(s, p) == CountFrom(s, p, 1)

RECURSIVE RemoveFrom(_, _, _)
RemoveFrom(s, p, i) ==
    LET f == Find(s, p, i)
    IN  IF f = 0 THEN SubSeq(s, i, Len(s))
        ELSE SubSeq(s, i, f - 1) \o RemoveFrom(s, p, f + Len(p))

\* s.replace(p, '')
Remove(s, p) == RemoveFrom(s, p, 1)

\* s.strip()
Strip(s) ==
    IF \A i \in 1..Len(s) : s[i] \in Whitespace THEN <<>>
    ELSE LET a == CHOOSE i \in 1..Len(s) :
                    s[i] \notin Whitespace /\ \A j \in 1..(i - 1) : s[j] \in Whitespace
             b == CHOOSE i \in 1..Len(s) :
                    s[i] \notin Whitespace /\ \A j \in (i + 1)..Len(s) : s[j] \in Whitespace
         IN  SubSeq(s, a, b)

\* s.lstrip()
LStrip(s) ==
    IF \A i \in 1..Len(s) : s[i] \in Whitespace THEN <<>>
    ELSE SubSeq(s, CHOOSE i \in 1..Len(s) :
                    s[i] \notin Whitespace /\ \A j \in 1..(i - 1) : s[j] \in Whitespace,
                Len(s))

RECURSIVE SplitFrom(_, _, _)
SplitFrom(s, p, i) ==
    LET f == Find(s, p, i)
    IN  IF f = 0 THEN <<SubSeq(s, i, Len(s))>>
        ELSE <<SubSeq(s, i, f - 1)>> \o SplitFrom(s, p, f + Len(p))

\* s.split(p): the list of pieces (never empty)
Split(s, p) == SplitFrom(s, p, 1)

\* s.split(): the whitespace-separated words; only the first is used.
\* <<>> stands for "no word" (s.split()[0] raises IndexError).
FirstWord(s) ==
    LET t == Strip(s)
    IN  IF t = <<>> THEN <<>>
        ELSE IF \E i \in 1..Len(t) : t[i] \in Whitespace
             THEN SubSeq(t, 1, (CHOOSE i \in 1..Len(t) :
                        t[i] \in Whitespace /\ \A j \in 1..(i - 1) : t[j] \notin Whitespace) - 1)
             ELSE t

IsDigit(c) == \E i \in 1..10 : Digits[i] = c

DigitValue(c) == (CHOOSE i \in 1..10 : Digits[i] = c) - 1

\* the part of an int literal after its optional sign
Unsigned(w) ==
    IF w # <<>> /\ w[1] \in {"+", "-"} THEN SubSeq(w, 2, Len(w)) ELSE w

\* int(w) accepts w: an optional sign, then digits, single underscores
\* allowed between digits
IsIntLiteral(w) ==
    LET u == Unsigned(w)
    IN  /\ u # <<>>
        /\ \A i \in 1..Len(u) : IsDigit(u[i]) \/ u[i] = "_"
        /\ IsDigit(u[1])
        /\ IsDigit(u[Len(u)])
        /\ \A i \in 1..(Len(u) - 1) : ~(u[i] = "_" /\ u[i + 1] = "_")

RECURSIVE DigitsValue(_, _)
DigitsValue(u, n) ==
    IF n = 0 THEN 0
    ELSE IF u[n] = "_" THEN DigitsValue(u, n - 1)
    ELSE 10 * DigitsValue(u, n - 1) + DigitValue(u[n])

\* int(w), for w with IsIntLiteral(w)
IntValue(w) ==
    LET u == Unsigned(w)
        v == DigitsValue(u, Len(u))
    IN  IF w[1] = "-" THEN 0 - v ELSE v

----------------------------------------------------------------------------
(* NaturalToCoqlConverter.validate_coql_query                               *)

kw_select == <<"s","e","l","e","c","t">>
kw_from == <<"f","r","o","m">>
kw_where == <<"w","h","e","r","e">>
kw_order_by == <<"o","r","d","e","r"," ","b","y">>
kw_group_by == <<"g","r","o","u","p"," ","b","y">>
kw_limit == <<"l","i","m","i","t">>
kw_and == <<"a","n","d">>
kw_or == <<"o","r">>

MaxSelectFields == 50
MaxCriteria == 25
MaxLimit == 2000
MaxJoins == 2

\* In the operators below lq is query.lower().

select_part(lq) == Strip(Remove(SplitHead(lq, kw_from), kw_select))

fields(lq) ==
    LET parts == Split(select_part(lq), <<",">>)
    IN  [i \in 1..Len(parts) |-> Strip(parts[i])]

where_part(lq) ==
    SplitHead(SplitHead(SplitHead(SplitSecond(lq, kw_where),
                                  kw_order_by), kw_group_by), kw_limit)

criteria_count(lq) ==
    LET w == where_part(lq)
    IN  Count(w, kw_and) + Count(w, kw_or) + 1

limit_part(lq) == FirstWord(Strip(SplitSecond(lq, kw_limit)))

dot_counts(lq) ==
    LET fs == fields(lq)
    IN  [i \in 1..Len(fs) |-> Count(fs[i], <<".">>)]

MaxOf(seq) ==
    IF Len(seq) = 0 THEN 0
    ELSE seq[CHOOSE i \in 1..Len(seq) : \A j \in 1..Len(seq) : seq[j] <= seq[i]]

\* The LIMIT check (lines 150-154): "ok" or the error it raises
LimitCheck(lq) ==
    IF ~Contains(lq, kw_limit) THEN "ok"
    ELSE LET w == limit_part(lq)
         IN  IF w = <<>> THEN "LimitIndexError"
             ELSE IF ~IsIntLiteral(w) THEN "LimitNotANumber"
             ELSE IF IntValue(w) > MaxLimit THEN "LimitExceeded"
             ELSE "ok"

\* The WHERE check (lines 143-148)
WhereCheck(lq) ==
    IF Contains(lq, kw_where) /\ criteria_count(lq) > MaxCriteria
    THEN "TooManyCriteria" ELSE "ok"

\* Mutant: the field limit taken as exclusive
FieldCountCheck_OffByOne(lq) ==
    IF Len(fields(lq)) >= MaxSelectFields THEN "TooManyFields" ELSE "ok"

\* The SELECT field-count check (lines 137-141)
FieldCountCheck(lq) ==
    IF Len(fields(lq)) > MaxSelectFields THEN "TooManyFields" ELSE "ok"

\* Mutant: only the first selected field is inspected
JoinDepthCheck_FirstFieldOnly(lq) ==
    IF dot_counts(lq)[1] > MaxJoins THEN "TooManyJoins" ELSE "ok"

\* The JOIN depth check (lines 156-159)
JoinDepthCheck(lq) ==
    IF MaxOf(dot_counts(lq)) > MaxJoins THEN "TooManyJoins" ELSE "ok"

\* Mutant: leading whitespace stripped before the startswith test
StartCheck_Stripped(q) ==
    IF ~StartsWith(Lower(LStrip(q)), kw_select) THEN "MustStartWithSelect" ELSE "ok"

\* The required-clause checks (lines 130-135)
StartCheck(q) ==
    IF ~StartsWith(Lower(q), kw_select) THEN "MustStartWithSelect" ELSE "ok"

FromCheck(lq) ==
    IF ~Contains(lq, kw_from) THEN "NoFrom" ELSE "ok"

\* validate_coql_query: "ok" for True, otherwise the reason of the ValueError
\* it raises (the first violation in the order of the code)
validate_coql_query(q) ==
    LET lq == Lower(q)
    IN  IF StartCheck(q) # "ok" THEN StartCheck(q)
        ELSE IF FromCheck(lq) # "ok" THEN FromCheck(lq)
        ELSE IF FieldCountCheck(lq) # "ok" THEN FieldCountCheck(lq)
        ELSE IF WhereCheck(lq) # "ok" THEN WhereCheck(lq)
        ELSE IF LimitCheck(lq) # "ok" THEN LimitCheck(lq)
        ELSE JoinDepthCheck(lq)

----------------------------------------------------------------------------
(* The query strings handed to validate_coql_query (the select_query field   *)
(* of an LLM reply): a start word, a field list, and optional from, where,   *)
(* order by and limit parts.                                                 *)

MaxGenFields == 51          \* longest generated field list
MaxGenConnectors == 25      \* most and/or connectors in a generated where clause

RECURSIVE Rep(_, _)
Rep(piece, n) == IF n <= 0 THEN <<>> ELSE piece \o Rep(piece, n - 1)

f_a == <<"a">>
f_two_dots == <<"a",".","b",".","c">>
f_three_dots == <<"a",".","b",".","c",".","d">>
f_credit_limit == <<"C","r","e","d","i","t","_","L","i","m","i","t">>
f_from_date == <<"F","r","o","m","_","D","a","t","e">>

\* <<leading text, start word>>
Heads ==
    { <<<< >>, kw_select>>,
      <<<< >>, <<"S","E","L","E","C","T">>>>,
      <<<<" ">>, kw_select>>,
      <<<<"\n">>, <<"S","e","l","e","c","t">>>>,
      <<<< >>, <<"d","e","l","e","t","e">>>> }

\* <<field, number of fields, position of the field>>; the other fields are "a"
FieldChoices ==
    ({f_a, f_two_dots, f_three_dots, f_credit_limit, f_from_date} \X {1, 2} \X {1})
    \cup ({f_two_dots, f_three_dots} \X {2} \X {2})
    \cup ({f_a, f_three_dots, f_from_date} \X ((MaxSelectFields - 1)..MaxGenFields) \X {1})

FieldList(fc) ==
    Rep(f_a \o <<",", " ">>, fc[3] - 1) \o fc[1] \o Rep(<<",", " ">> \o f_a, fc[2] - fc[3])

FromParts ==
    { <<" ","f","r","o","m"," ","b">>,
      <<"\n","F","R","O","M"," ","b">>,
      << >> }

c_plain == <<"x","=","1">>
c_vendor == <<"V","e","n","d","o","r","=","1">>
c_nested == <<"(","x","=","1"," ","o","r"," ","y","=","2",")">>

Connector(i) ==
    IF i % 2 = 1 THEN <<" ","a","n","d"," ">> ELSE <<" ","O","R"," ">>

RECURSIVE Criteria(_, _)
Criteria(cond, nc) ==
    IF nc <= 0 THEN cond ELSE Criteria(cond, nc - 1) \o Connector(nc) \o cond

\* <<condition, number of top-level connectors>>
WhereChoices ==
    ({c_plain} \X ({0} \cup ((MaxCriteria - 1)..MaxGenConnectors)))
    \cup ({c_vendor, c_nested} \X {0, 11, 12})

WhereParts ==
    { << >> } \cup
    { <<" ","w","h","e","r","e"," ">> \o Criteria(wc[1], wc[2]) : wc \in WhereChoices }

OrderParts == { << >>, <<" ","o","r","d","e","r"," ","b","y"," ","a">> }

LimitWords ==
    { <<"5">>, <<"2","0","0","0">>, <<"2","0","0","1">>, <<"5","0","0","0">>,
      <<"a","b","c">>, <<"1","_","0","0","0">>, << >> }

LimitParts ==
    { << >> } \cup { <<" ","l","i","m","i","t"," ">> \o w : w \in LimitWords }

\* The tail of a query after its start word
QueryTail(fc, fp, wp, op, lp) == <<" ">> \o FieldList(fc) \o fp \o wp \o op \o lp

ShortWhereParts == { << >>, <<" ","w","h","e","r","e"," ">> \o c_plain }

ShortLimitParts ==
    { << >> } \cup
    { <<" ","L","I","M","I","T"," ">> \o w : w \in {<<"5">>, <<"5","0","0","0">>, <<"a","b","c">>} }

plain_from == <<" ","f","r","o","m"," ","b">>

\* every start word against short tails
HeadQueries ==
    { h[1] \o h[2] \o QueryTail(fc, fp, wp, << >>, lp) :
        h \in Heads, fc \in {c \in FieldChoices : c[2] <= 2}, fp \in FromParts,
        wp \in ShortWhereParts, lp \in ShortLimitParts }

\* "select" against every tail with a from clause
BodyQueries ==
    { kw_select \o QueryTail(fc, plain_from, wp, op, lp) :
        fc \in FieldChoices, wp \in WhereParts, op \in OrderParts, lp \in LimitParts }

Queries == HeadQueries \cup BodyQueries

\* no record: the value of reply and query_data before they are set
NoRecord == [t |-> "none"]

\* the converter and the request handler outside a request
ConverterIdle ==
    /\ cpc = "idle"
    /\ reply = NoRecord
    /\ query_data = NoRecord
    /\ apc = "idle"
    /\ coql_query = << >>
    /\ status_code = 0
    /\ llm_calls = 0

\* A response body: its 'status', 'error' and 'message' keys ("" when absent).
\* jsonify({'error': msg})
ErrorBody(msg) == [status |-> "", error |-> msg, message |-> ""]

\* the request handler and the processor outside a request
HandlerIdle ==
    /\ body = NoRecord
    /\ stages = << >>
    /\ answer = NoRecord
    /\ envelope = NoRecord
    /\ summary_calls = << >>
    /\ result = NoRecord
    /\ record = << >>
    /\ formatted_record = << >>

----------------------------------------------------------------------------
(* ZohoCoqlExecutor (zoho_coql_executor.py) and ZohoCRMHandler (xc.py):      *)
(* execute_coql and the token refresh. Several execute_coql calls may be in  *)
(* progress on one executor object; each step below is one access to the     *)
(* shared token or one exchange with the remote system.                      *)

NumCalls == 2               \* execute_coql calls in progress on one object

Calls == 1..NumCalls

NoToken == 0                \* self.access_token = None

NoTimeout == 0              \* requests.post without a timeout argument

RequestTimeout == 30        \* timeout=30 of the first query call

Statuses == {200, 400, 401, 500}

RefreshReplies == {"transport_error", "http_error", "no_access_token"}

\* the token the authorization endpoint issues to call c
IssuedToken(c) == c

\* timeout argument of the first query call
FirstCallTimeout(k) == IF k = "ZohoCoqlExecutor" THEN RequestTimeout ELSE NoTimeout

\* timeout argument of the retried query call
RetryCallTimeout(k) == NoTimeout

\* the state of an object on which no call was ever made (__init__)
ExecutorIdle ==
    /\ access_token = NoToken
    /\ pc = [c \in Calls |-> "idle"]
    /\ attempt = [c \in Calls |-> 1]
    /\ pending = [c \in Calls |-> NoToken]
    /\ resp = [c \in Calls |-> 0]
    /\ calls = [c \in Calls |-> << >>]
    /\ refreshes = [c \in Calls |-> << >>]
    /\ outcome = [c \in Calls |-> "none"]
    /\ payload = [c \in Calls |-> 0]
    /\ heldAtEntry = [c \in Calls |-> FALSE]

\* the call raises: it ends without a result
Raise(c) ==
    /\ pc' = [pc EXCEPT ![c] = "done"]
    /\ outcome' = [outcome EXCEPT ![c] = "raised"]

\* Mutant: the query call is sent without acquiring a token first
AfterEntry_NoRefresh(token) == "calling"

\* where execute_coql goes after its query check (lines 133-134)
AfterEntry(token) == IF token = NoToken THEN "refreshing" ELSE "calling"

\* execute_coql is entered (lines 114-134; xc.py 36-39): the select_query
\* check of ZohoCoqlExecutor, then the test of the held token
Enter(c, given) ==
    /\ pc[c] \in {"idle", "done"}
    /\ attempt' = [attempt EXCEPT ![c] = 1]
    /\ pending' = [pending EXCEPT ![c] = NoToken]
    /\ resp' = [resp EXCEPT ![c] = 0]
    /\ calls' = [calls EXCEPT ![c] = << >>]
    /\ refreshes' = [refreshes EXCEPT ![c] = << >>]
    /\ payload' = [payload EXCEPT ![c] = 0]
    /\ heldAtEntry' = [heldAtEntry EXCEPT ![c] = access_token # NoToken]
    /\ IF klass = "ZohoCoqlExecutor" /\ ~given
       THEN Raise(c)
       ELSE /\ pc' = [pc EXCEPT ![c] = AfterEntry(access_token)]
            /\ outcome' = [outcome EXCEPT ![c] = "none"]
    /\ UNCHANGED <<klass, access_token>>

\* why the refresh in progress was started
RefreshCause(c) == IF attempt[c] = 1 THEN "no_token" ELSE "unauthorized"

\* _refresh_access_token, lines 96-100: the token endpoint replies with a token
RefreshReplyOk(c) ==
    /\ pc[c] = "refreshing"
    /\ pending' = [pending EXCEPT ![c] = IssuedToken(c)]
    /\ pc' = [pc EXCEPT ![c] = "storing"]
    /\ UNCHANGED <<klass, access_token, attempt, resp, calls, refreshes, outcome,
                   payload, heldAtEntry>>

\* Mutant: a failed refresh drops the token held
TokenAfterFailedRefresh_Cleared(held) == NoToken

\* lines 96-100, 104-112: the exception is raised before line 101, so the
\* token held stays
TokenAfterFailedRefresh(held) == held

\* _refresh_access_token, lines 96-112: the request fails, the reply has an
\* error status, or the reply holds no access_token; the exception leaves
\* execute_coql
RefreshReplyFail(c, r) ==
    /\ pc[c] = "refreshing"
    /\ r \in RefreshReplies
    /\ access_token' = TokenAfterFailedRefresh(access_token)
    /\ refreshes' = [refreshes EXCEPT
                        ![c] = Append(@, [cause |-> RefreshCause(c), ok |-> FALSE])]
    /\ Raise(c)
    /\ UNCHANGED <<klass, attempt, pending, resp, calls, payload, heldAtEntry>>

\* Mutant: a token already held is kept
StoredToken_KeepHeld(held, issued) == IF held # NoToken THEN held ELSE issued

\* line 101: self.access_token = token_info['access_token']
StoredToken(held, issued) == issued

\* _refresh_access_token, lines 101-103: the new token is stored
RefreshStore(c) ==
    /\ pc[c] = "storing"
    /\ access_token' = StoredToken(access_token, pending[c])
    /\ refreshes' = [refreshes EXCEPT
                        ![c] = Append(@, [cause |-> RefreshCause(c), ok |-> TRUE])]
    /\ pc' = [pc EXCEPT ![c] = "calling"]
    /\ UNCHANGED <<klass, attempt, pending, resp, calls, outcome, payload,
                   heldAtEntry>>

\* the query call is sent (lines 136-153 for the first call, 166-171 for the
\* retry): the header is built from the held token
SendCall(c) ==
    /\ pc[c] = "calling"
    /\ calls' = [calls EXCEPT ![c] = Append(@,
                    [attempt |-> attempt[c],
                     with_token |-> access_token # NoToken,
                     status |-> 0,
                     timeout |-> IF attempt[c] = 1 THEN FirstCallTimeout(klass)
                                 ELSE RetryCallTimeout(klass)])]
    /\ pc' = [pc EXCEPT ![c] = "waiting"]
    /\ UNCHANGED <<klass, access_token, attempt, pending, resp, refreshes, outcome,
                   payload, heldAtEntry>>

\* Mutant: an unauthorized reply to the retry is answered by another refresh
AfterReply_RetryAgain(n, status) ==
    IF status = 401 THEN "refreshing" ELSE "finishing"

\* where execute_coql goes after a query reply (line 163)
AfterReply(n, status) ==
    IF n = 1 /\ status = 401 THEN "refreshing" ELSE "finishing"

\* the remote system replies to the query call (lines 153-165, 171-172)
CallReply(c, status) ==
    /\ pc[c] = "waiting"
    /\ status \in Statuses
    /\ resp' = [resp EXCEPT ![c] = status]
    /\ calls' = [calls EXCEPT ![c][Len(calls[c])].status = status]
    /\ pc' = [pc EXCEPT ![c] = AfterReply(attempt[c], status)]
    /\ attempt' = [attempt EXCEPT
                      ![c] = IF AfterReply(@, status) = "refreshing" THEN @ + 1 ELSE @]
    /\ UNCHANGED <<klass, access_token, pending, refreshes, outcome, payload,
                   heldAtEntry>>

\* the query call raises a RequestException (connection error, or the timeout
\* when there is one); lines 158-160 and 189-208 log it and raise it again
CallRaise(c) ==
    /\ pc[c] = "waiting"
    /\ Raise(c)
    /\ UNCHANGED <<klass, access_token, attempt, pending, resp, calls, refreshes,
                   payload, heldAtEntry>>

\* Mutant: the payload of the first reply is kept
ReturnedPayload_First(n) == 1

\* the reply whose payload execute_coql returns (line 185)
ReturnedPayload(n) == n

\* lines 174-187: raise_for_status, then the payload of the latest reply
Finish(c) ==
    /\ pc[c] = "finishing"
    /\ pc' = [pc EXCEPT ![c] = "done"]
    /\ IF resp[c] = 200
       THEN /\ outcome' = [outcome EXCEPT ![c] = "returned"]
            /\ payload' = [payload EXCEPT ![c] = ReturnedPayload(Len(calls[c]))]
       ELSE /\ outcome' = [outcome EXCEPT ![c] = "raised"]
            /\ UNCHANGED payload
    /\ UNCHANGED <<klass, access_token, attempt, pending, resp, calls, refreshes,
                   heldAtEntry>>

InitExecutor ==
    /\ query = << >>
    /\ verdict = "none"
    /\ vpc = "idle"
    /\ klass \in {"ZohoCoqlExecutor", "ZohoCRMHandler"}
    /\ ExecutorIdle
    /\ ConverterIdle
    /\ HandlerIdle

NextExecutor ==
    \E c \in Calls :
        \/ \E given \in BOOLEAN : Enter(c, given) /\ UNCHANGED <<vvars, cvars, hvars, fvars>>
        \/ RefreshReplyOk(c) /\ UNCHANGED <<vvars, cvars, hvars, fvars>>
        \/ \E r \in RefreshReplies : RefreshReplyFail(c, r) /\ UNCHANGED <<vvars, cvars, hvars, fvars>>
        \/ RefreshStore(c) /\ UNCHANGED <<vvars, cvars, hvars, fvars>>
        \/ SendCall(c) /\ UNCHANGED <<vvars, cvars, hvars, fvars>>
        \/ \E status \in Statuses : CallReply(c, status) /\ UNCHANGED <<vvars, cvars, hvars, fvars>>
        \/ CallRaise(c) /\ UNCHANGED <<vvars, cvars, hvars, fvars>>
        \/ Finish(c) /\ UNCHANGED <<vvars, cvars, hvars, fvars>>

SpecExecutor == InitExecutor /\ [][NextExecutor]_vars

----------------------------------------------------------------------------
(* NaturalToCoqlConverter.convert_to_coql and _parse_llm_response, and the   *)
(* conversion stage of the request handler (app.py, query)                   *)

\* JSON values of an LLM reply. A text json.loads rejects is JInvalid.
JInvalid == [t |-> "invalid"]
JScalar == [t |-> "scalar"]                   \* null, a number, a bare string
JStr(s) == [t |-> "str", s |-> s]
JObj(v) == [t |-> "obj", has |-> TRUE, q |-> v]       \* {"select_query": v}
JObjNoQuery == [t |-> "obj", has |-> FALSE, q |-> JScalar]
JList(items) == [t |-> "list", items |-> items]

\* the query strings an LLM reply carries in this specification
ConvQueries ==
    { q \in HeadQueries : Len(q) <= 30 }
    \cup { kw_select \o QueryTail(fc, plain_from, << >>, << >>, << >>) : fc \in FieldChoices }

ReplyObjects ==
    { JObj(JStr(q)) : q \in ConvQueries } \cup { JObj(JScalar), JObj(JStr(<< >>)), JObjNoQuery }

Replies ==
    ReplyObjects
    \cup { JList(<<o>>) : o \in ReplyObjects }
    \cup { JList(<<o, JObjNoQuery>>) : o \in ReplyObjects }
    \cup { JInvalid, JScalar, JList(<< >>), JList(<<JScalar>>) }

\* _parse_llm_response (lines 35-65): the record parsed, or NoRecord when a
\* ValueError is raised
_parse_llm_response(r) ==
    IF r.t = "invalid" THEN NoRecord
    ELSE LET d == IF r.t = "list"
                  THEN (IF r.items = << >> THEN NoRecord ELSE r.items[1])
                  ELSE r
         IN  IF d.t # "obj" THEN NoRecord
             ELSE IF ~d.has THEN NoRecord
             ELSE d

\* lines 98-109: the LLM completion call returns a text
ConvCallLLM(r) ==
    /\ cpc = "llm"
    /\ r \in Replies
    /\ reply' = r
    /\ cpc' = "parse"
    /\ llm_calls' = llm_calls + 1
    /\ UNCHANGED <<query_data, apc, coql_query, status_code, vvars, evars, hvars, fvars>>

\* lines 98-106 and 120-122: the LLM completion call raises
ConvLLMFails ==
    /\ cpc = "llm"
    /\ cpc' = "raised"
    /\ llm_calls' = llm_calls + 1
    /\ UNCHANGED <<reply, query_data, apc, coql_query, status_code, vvars, evars, hvars, fvars>>

\* line 112: query_data = self._parse_llm_response(response)
ConvParse ==
    /\ cpc = "parse"
    /\ query_data' = _parse_llm_response(reply)
    /\ cpc' = IF query_data' = NoRecord THEN "raised" ELSE "validate"
    /\ UNCHANGED <<reply, apc, coql_query, status_code, llm_calls, vvars, evars, hvars, fvars>>

\* Mutant: the result of the validation is not acted upon
AfterValidate_Ignored(v) == "returned"

\* lines 115-122: the record is returned when the validator passed, and the
\* validator's ValueError leaves convert_to_coql otherwise
AfterValidate(v) == IF v = "ok" THEN "returned" ELSE "raised"

\* lines 115-118: validate_coql_query(query_data["select_query"]); a value
\* that is no str has no lower(), which the validator reports as its error
ConvValidate ==
    /\ cpc = "validate"
    /\ IF query_data.q.t = "str"
       THEN /\ query' = query_data.q.s
            /\ verdict' = validate_coql_query(query_data.q.s)
       ELSE /\ query' = << >>
            /\ verdict' = "NotAString"
    /\ vpc' = "validated"
    /\ cpc' = AfterValidate(verdict')
    /\ UNCHANGED <<reply, query_data, apc, coql_query, status_code, llm_calls, evars, hvars, fvars>>

\* app.py lines 93-104: the handler takes select_query from the returned
\* record and goes on to the executor, or answers 400
AppAfterConvert ==
    /\ apc = "convert"
    /\ cpc \in {"returned", "raised"}
    /\ IF cpc = "returned" /\ query_data.q.t = "str" /\ query_data.q.s # << >>
       THEN /\ coql_query' = query_data.q.s
            /\ apc' = "execute"
            /\ status_code' = 0
            /\ answer' = answer
       ELSE /\ coql_query' = << >>
            /\ apc' = "responded"
            /\ status_code' = 400
            /\ answer' = ErrorBody(IF cpc = "returned" THEN "Failed to generate COQL query"
                                   ELSE "Failed to convert natural language to COQL")
    /\ UNCHANGED <<cpc, reply, query_data, llm_calls, vvars, evars, fvars>>
    /\ UNCHANGED <<body, stages, envelope, summary_calls, result>>

InitConvert ==
    /\ query = << >>
    /\ verdict = "none"
    /\ vpc = "idle"
    /\ klass = "ZohoCoqlExecutor"
    /\ ExecutorIdle
    /\ cpc = "llm"
    /\ reply = NoRecord
    /\ query_data = NoRecord
    /\ apc = "convert"
    /\ coql_query = << >>
    /\ status_code = 0
    /\ llm_calls = 0
    /\ HandlerIdle

NextConvert ==
    \/ \E r \in Replies : ConvCallLLM(r)
    \/ ConvLLMFails
    \/ ConvParse
    \/ ConvValidate
    \/ AppAfterConvert

SpecConvert == InitConvert /\ [][NextConvert]_vars

----------------------------------------------------------------------------
(* The request handler (app.py, query) and ZohoResponseProcessor             *)
(* (zoho_response_processor.py, process_response): one POST /query call      *)

MaxRecords == 2             \* most records in a result envelope

\* the execute_coql call of the request
HandlerCall == 1

FieldStates == {"missing", "empty", "text"}

\* request bodies: a JSON object, the form used when get_json gives a false
\* value, and a JSON value that is true and no object (a list, a string)
Bodies ==
    { [t |-> "json_object", natural_query |-> v] : v \in FieldStates }
    \cup { [t |-> "form", natural_query |-> v] : v \in FieldStates }
    \cup { [t |-> "json_other", natural_query |-> "missing"] }

q_plain == kw_select \o QueryTail(<<f_a, 1, 1>>, plain_from, << >>, << >>, << >>)

q_delete == <<"d","e","l","e","t","e">> \o QueryTail(<<f_a, 1, 1>>, plain_from, << >>, << >>, << >>)

\* the LLM replies of the conversion stage in this specification
HandlerReplies ==
    { JObj(JStr(q_plain)), JList(<<JObj(JStr(q_plain))>>), JObj(JStr(q_delete)),
      JObj(JStr(<< >>)), JObjNoQuery, JInvalid }

\* result envelopes: has_data is 'data' in zoho_response, n the length of the
\* data list, well_formed whether data is a list of records
Envelopes ==
    { [t |-> "obj", has_data |-> FALSE, well_formed |-> TRUE, n |-> 0] }
    \cup { [t |-> "obj", has_data |-> TRUE, well_formed |-> TRUE, n |-> k] : k \in 0..MaxRecords }
    \cup { [t |-> "obj", has_data |-> TRUE, well_formed |-> FALSE, n |-> 1],
           [t |-> "other", has_data |-> FALSE, well_formed |-> FALSE, n |-> 0] }

\* Mutant: only a missing data key counts as no data
NoData_MissingOnly(env) == ~env.has_data

\* not zoho_response.get('data', [])  (app.py 118-120, processor 42-44)
NoData(env) == ~env.has_data \/ env.n = 0

\* the body answered when the envelope holds no records (app.py 121-128)
NoDataBody ==
    [status |-> "error", error |-> "", message |-> "No data found in Zoho response"]

\* the values process_response returns
NoDataResult ==
    [status |-> "error", message |-> "No data found in response",
     narrative |-> FALSE, tabular |-> FALSE, record_count |-> 0]

ExceptionResult ==
    [status |-> "error", message |-> "exception",
     narrative |-> FALSE, tabular |-> FALSE, record_count |-> 0]

\* Mutant: the analyses completed before the failure are kept
FailedAnalysis_Partial(done) ==
    [status |-> "error", message |-> "Failed to generate analysis",
     narrative |-> done >= 1, tabular |-> FALSE, record_count |-> 0]

\* lines 135-140: the value returned when a summarization call failed after
\* `done` of them succeeded
FailedAnalysis(done) ==
    [status |-> "error", message |-> "Failed to generate analysis",
     narrative |-> FALSE, tabular |-> FALSE, record_count |-> 0]

\* lines 143-157
SuccessResult(n) ==
    [status |-> "success", message |-> "",
     narrative |-> TRUE, tabular |-> TRUE, record_count |-> n]

\* the call ends with a response
Respond(code, b) ==
    /\ apc' = "responded"
    /\ status_code' = code
    /\ answer' = b

\* app.py 80-94: the body is read and natural_query tested
AppReceive(b) ==
    /\ apc = "start"
    /\ b \in Bodies
    /\ body' = b
    /\ IF b.t = "json_other"
       THEN /\ Respond(500, ErrorBody("An unexpected error occurred"))
            /\ UNCHANGED <<cpc, stages>>
       ELSE IF b.natural_query # "text"
       THEN /\ Respond(400, ErrorBody("No query provided"))
            /\ UNCHANGED <<cpc, stages>>
       ELSE /\ apc' = "convert"
            /\ cpc' = "llm"
            /\ stages' = Append(stages, "convert")
            /\ UNCHANGED <<status_code, answer>>
    /\ UNCHANGED <<reply, query_data, coql_query, llm_calls, envelope, summary_calls,
                   result, vvars, evars, fvars>>

\* app.py 108: executor.execute_coql({'select_query': coql_query}) is called
AppExecute ==
    /\ apc = "execute"
    /\ apc' = "executing"
    /\ stages' = Append(stages, "execute")
    /\ Enter(HandlerCall, coql_query # << >>)
    /\ UNCHANGED <<cpc, reply, query_data, coql_query, status_code, llm_calls, body,
                   answer, envelope, summary_calls, result, vvars, fvars>>

\* app.py 108-113: execute_coql raised, or returned the envelope e
AppAfterExecute(e) ==
    /\ apc = "executing"
    /\ pc[HandlerCall] = "done"
    /\ e \in Envelopes
    /\ IF outcome[HandlerCall] = "raised"
       THEN /\ Respond(400, ErrorBody("Failed to execute query in Zoho CRM"))
            /\ UNCHANGED envelope
       ELSE /\ envelope' = e
            /\ apc' = "process"
            /\ UNCHANGED <<status_code, answer>>
    /\ UNCHANGED <<cpc, reply, query_data, coql_query, llm_calls, body, stages,
                   summary_calls, result, vvars, evars, fvars>>

\* app.py 116-135 and 140-145: the data list is taken from the envelope
AppProcess ==
    /\ apc = "process"
    /\ stages' = Append(stages, "process")
    /\ IF envelope.t # "obj"
       THEN Respond(400, ErrorBody("Failed to process query response"))
       ELSE IF NoData(envelope)
       THEN Respond(200, NoDataBody)
       ELSE /\ apc' = "clean"
            /\ UNCHANGED <<status_code, answer>>
    /\ UNCHANGED <<cpc, reply, query_data, coql_query, llm_calls, body, envelope,
                   summary_calls, result, vvars, evars, fvars>>

\* process_response, lines 63-115 and 159-168: the data list is taken again,
\* its records are formatted and the prompts built
ProcFormat ==
    /\ apc = "clean"
    /\ IF ~envelope.has_data \/ envelope.n = 0
       THEN /\ result' = NoDataResult
            /\ apc' = "respond"
       ELSE IF ~envelope.well_formed
       THEN /\ result' = ExceptionResult
            /\ apc' = "respond"
       ELSE /\ apc' = "narrative"
            /\ UNCHANGED result
    /\ UNCHANGED <<cpc, reply, query_data, coql_query, status_code, llm_calls, body,
                   stages, answer, envelope, summary_calls, vvars, evars, fvars>>

\* lines 119-125, 135-140: the narrative completion call
NarrativeCall(ok) ==
    /\ apc = "narrative"
    /\ summary_calls' = Append(summary_calls, [kind |-> "narrative", ok |-> ok])
    /\ IF ok
       THEN /\ apc' = "tabular"
            /\ UNCHANGED result
       ELSE /\ result' = FailedAnalysis(0)
            /\ apc' = "respond"
    /\ UNCHANGED <<cpc, reply, query_data, coql_query, status_code, llm_calls, body,
                   stages, answer, envelope, vvars, evars, fvars>>

\* lines 127-157: the tabular completion call, then the assembled result
TabularCall(ok) ==
    /\ apc = "tabular"
    /\ summary_calls' = Append(summary_calls, [kind |-> "tabular", ok |-> ok])
    /\ result' = IF ok THEN SuccessResult(envelope.n) ELSE FailedAnalysis(1)
    /\ apc' = "respond"
    /\ UNCHANGED <<cpc, reply, query_data, coql_query, status_code, llm_calls, body,
                   stages, answer, envelope, vvars, evars, fvars>>

\* app.py 137-138: jsonify(processed_response)
AppRespond ==
    /\ apc = "respond"
    /\ Respond(200, [status |-> result.status, error |-> "", message |-> result.message])
    /\ UNCHANGED <<cpc, reply, query_data, coql_query, llm_calls, body, stages,
                   envelope, summary_calls, result, vvars, evars, fvars>>

\* a step of the execute_coql call the handler is waiting for
AppExecuting(step) ==
    /\ apc = "executing"
    /\ step
    /\ UNCHANGED <<vvars, cvars, hvars, fvars>>

InitHandler ==
    /\ query = << >>
    /\ verdict = "none"
    /\ vpc = "idle"
    /\ klass = "ZohoCoqlExecutor"
    /\ ExecutorIdle
    /\ cpc = "idle"
    /\ reply = NoRecord
    /\ query_data = NoRecord
    /\ apc = "start"
    /\ coql_query = << >>
    /\ status_code = 0
    /\ llm_calls = 0
    /\ HandlerIdle

NextHandler ==
    \/ \E b \in Bodies : AppReceive(b)
    \/ \E r \in HandlerReplies : ConvCallLLM(r)
    \/ ConvLLMFails
    \/ ConvParse
    \/ ConvValidate
    \/ AppAfterConvert
    \/ AppExecute
    \/ AppExecuting(RefreshReplyOk(HandlerCall))
    \/ \E r \in RefreshReplies : AppExecuting(RefreshReplyFail(HandlerCall, r))
    \/ AppExecuting(RefreshStore(HandlerCall))
    \/ AppExecuting(SendCall(HandlerCall))
    \/ \E status \in Statuses : AppExecuting(CallReply(HandlerCall, status))
    \/ AppExecuting(CallRaise(HandlerCall))
    \/ AppExecuting(Finish(HandlerCall))
    \/ \E e \in Envelopes : AppAfterExecute(e)
    \/ AppProcess
    \/ ProcFormat
    \/ \E ok \in BOOLEAN : NarrativeCall(ok)
    \/ \E ok \in BOOLEAN : TabularCall(ok)
    \/ AppRespond

SpecHandler == InitHandler /\ [][NextHandler]_vars

----------------------------------------------------------------------------
(* ZohoResponseProcessor: the formatting of one record (process_response,    *)
(* lines 76-84, and _format_currency)                                        *)

\* Field values as json gives them. A number is held in hundredths (n), a
\* string as its characters (s); null, a boolean and a list hold neither.
VNum(c) == [t |-> "num", n |-> c, s |-> << >>]
VStr(chars) == [t |-> "str", n |-> 0, s |-> chars]
VNull == [t |-> "null", n |-> 0, s |-> << >>]
VBool(b) == [t |-> "bool", n |-> IF b THEN 1 ELSE 0, s |-> << >>]
VList == [t |-> "list", n |-> 0, s |-> << >>]

FieldValues ==
    { VNum(0), VNum(500), VNum(99999), VNum(123456), VNum(100000000), VNum(0 - 250),
      VStr(<<"a","b","c">>), VStr(<<"1","5","0","0">>), VStr(<< >>),
      VNull, VBool(TRUE), VList }

FieldNames ==
    { <<"A","m","o","u","n","t">>,
      <<"D","e","a","l","_","V","a","l","u","e">>,
      <<"u","n","i","t","_","p","r","i","c","e">>,
      <<"A","n","n","u","a","l","_","R","e","v","e","n","u","e">>,
      <<"S","t","a","g","e">>,
      <<"N","a","m","e">> }

\* a record: its fields in order, each <<name, value>>, names distinct
Records ==
    { <<<<k, v>>>> : k \in FieldNames, v \in FieldValues }
    \cup { <<<<k1, v1>>, <<k2, v2>>>> :
             k1 \in {<<"A","m","o","u","n","t">>, <<"N","a","m","e">>},
             v1 \in FieldValues,
             k2 \in {<<"D","e","a","l","_","V","a","l","u","e">>, <<"S","t","a","g","e">>},
             v2 \in {VNum(123456), VNull, VStr(<<"a","b","c">>)} }

currency_terms ==
    { <<"a","m","o","u","n","t">>, <<"v","a","l","u","e">>,
      <<"p","r","i","c","e">>, <<"r","e","v","e","n","u","e">> }

\* line 80: any(term in key.lower() for term in [...])
IsCurrencyField(key) == \E term \in currency_terms : Contains(Lower(key), term)

RECURSIVE NatDigits(_)
NatDigits(n) ==
    IF n < 10 THEN <<Digits[n + 1]>>
    ELSE NatDigits(n \div 10) \o <<Digits[(n % 10) + 1]>>

RECURSIVE Grouped(_)
Grouped(d) ==
    IF Len(d) <= 3 THEN d
    ELSE Grouped(SubSeq(d, 1, Len(d) - 3)) \o <<",">> \o SubSeq(d, Len(d) - 2, Len(d))

\* f"${value:,.2f}" for the number of c hundredths
CurrencyString(c) ==
    LET a == IF c < 0 THEN 0 - c ELSE c
    IN  <<"$">> \o (IF c < 0 THEN <<"-">> ELSE << >>)
        \o Grouped(NatDigits(a \div 100))
        \o <<".", Digits[((a \div 10) % 10) + 1], Digits[(a % 10) + 1]>>

\* str(amount) for a value float() rejects
StrOf(v) ==
    IF v.t = "str" THEN v.s
    ELSE IF v.t = "null" THEN <<"N","o","n","e">>
    ELSE <<"[","]">>

\* _format_currency (lines 48-54): float(amount) succeeds on a number, on a
\* boolean and on a string holding a number; otherwise str(amount)
_format_currency(v) ==
    IF v.t = "num" THEN VStr(CurrencyString(v.n))
    ELSE IF v.t = "bool" THEN VStr(CurrencyString(100 * v.n))
    ELSE IF v.t = "str" /\ IsIntLiteral(Strip(v.s))
         THEN VStr(CurrencyString(100 * IntValue(Strip(v.s))))
    ELSE VStr(StrOf(v))

\* lines 78-84: the formatted copy of one record
FormatRecord ==
    /\ apc = "format"
    /\ formatted_record' =
          [i \in 1..Len(record) |->
              <<record[i][1],
                IF IsCurrencyField(record[i][1]) THEN _format_currency(record[i][2])
                ELSE record[i][2]>>]
    /\ apc' = "formatted"
    /\ UNCHANGED <<record, vvars, evars, hvars>>
    /\ UNCHANGED <<cpc, reply, query_data, coql_query, status_code, llm_calls>>

InitFormat ==
    /\ query = << >>
    /\ verdict = "none"
    /\ vpc = "idle"
    /\ klass = "ZohoCoqlExecutor"
    /\ ExecutorIdle
    /\ cpc = "idle"
    /\ reply = NoRecord
    /\ query_data = NoRecord
    /\ apc = "format"
    /\ coql_query = << >>
    /\ status_code = 0
    /\ llm_calls = 0
    /\ body = NoRecord
    /\ stages = << >>
    /\ answer = NoRecord
    /\ envelope = NoRecord
    /\ summary_calls = << >>
    /\ result = NoRecord
    /\ record \in Records
    /\ formatted_record = << >>

NextFormat == FormatRecord

SpecFormat == InitFormat /\ [][NextFormat]_vars

----------------------------------------------------------------------------
(* Specification of the validator: a query is drawn, then validated          *)

InitValidator ==
    /\ query \in Queries
    /\ verdict = "none"
    /\ vpc = "input"
    /\ klass = "ZohoCoqlExecutor"
    /\ ExecutorIdle
    /\ ConverterIdle
    /\ HandlerIdle

\* One call of validate_coql_query(query)
Validate ==
    /\ vpc = "input"
    /\ verdict' = validate_coql_query(query)
    /\ vpc' = "validated"
    /\ UNCHANGED <<query, evars, cvars, hvars, fvars>>

NextValidator == Validate

SpecValidator == InitValidator /\ [][NextValidator]_vars

----------------------------------------------------------------------------
(* Claims about the validator (checked under SpecValidator)                  *)

Validated == vpc = "validated"

LimitReasons == {"LimitExceeded", "LimitNotANumber", "LimitIndexError"}

\* s begins with the keyword select, in any letter case
BeginsWithSelect(s) ==
    /\ Len(s) >= 6
    /\ s[1] \in {"s", "S"} /\ s[2] \in {"e", "E"} /\ s[3] \in {"l", "L"}
    /\ s[4] \in {"e", "E"} /\ s[5] \in {"c", "C"} /\ s[6] \in {"t", "T"}

\* the word w stands at position i of s, delimited by whitespace or the ends
IsWordAt(s, w, i) ==
    /\ MatchAt(s, w, i)
    /\ (i = 1 \/ s[i - 1] \in Whitespace)
    /\ (i + Len(w) > Len(s) \/ s[i + Len(w)] \in Whitespace)

HasWord(s, w) == \E i \in 1..Len(s) : IsWordAt(s, w, i)

WordPos(s, w) ==
    CHOOSE i \in 1..Len(s) : IsWordAt(s, w, i) /\ \A j \in 1..(i - 1) : ~IsWordAt(s, w, j)

\* C1 as stated: the validator rejects with the "must start with SELECT"
\* reason exactly when the query, leading whitespace ignored, does not begin
\* with select in any letter case.
C1_IgnoringLeadingWhitespace ==
    Validated =>
        (verdict = "MustStartWithSelect" <=> ~BeginsWithSelect(LStrip(query)))

\* C1 amended: the validator rejects with the "must start with SELECT" reason
\* exactly when the query as given, leading whitespace NOT ignored, does not
\* begin with select in any letter case; a query of leading whitespace
\* followed by select is rejected with this reason.
C1_StartsWithSelect ==
    Validated =>
        /\ verdict = "MustStartWithSelect" <=> ~BeginsWithSelect(query)
        /\ (query # <<>> /\ query[1] \in Whitespace) => verdict = "MustStartWithSelect"

C1_Witness ==
    /\ Validated
    /\ query[1] \in Whitespace
    /\ BeginsWithSelect(LStrip(query))
    /\ verdict = "MustStartWithSelect"

\* the query has a limit clause: the keyword limit as a word of its own
HasLimitClause(q) == HasWord(Lower(q), kw_limit)

\* the word that follows the limit keyword (<<>> when there is none)
LimitValueWord(q) ==
    LET lq == Lower(q)
    IN  FirstWord(SubSeq(lq, WordPos(lq, kw_limit) + Len(kw_limit), Len(lq)))

\* C2 as stated: a query with no limit clause is never rejected by the limit
\* rule; a query with a limit clause that breaks no other rule passes when the
\* value after limit is a number at most 2000, fails with the limit-exceeded
\* reason when it is a number above 2000, and fails with an error when it is
\* not a number.
C2_LimitRule ==
    Validated =>
        /\ ~HasLimitClause(query) => verdict \notin LimitReasons
        /\ (HasLimitClause(query) /\ (verdict = "ok" \/ verdict \in LimitReasons)) =>
              LET w == LimitValueWord(query)
              IN  /\ (IsIntLiteral(w) /\ IntValue(w) <= 2000) => verdict = "ok"
                  /\ (IsIntLiteral(w) /\ IntValue(w) > 2000) => verdict = "LimitExceeded"
                  /\ ~IsIntLiteral(w) => verdict \in {"LimitNotANumber", "LimitIndexError"}

HasWhereClause(q) == HasWord(Lower(q), kw_where)

\* parenthesis nesting depth of position i of s, counted from position a
Depth(s, a, i) ==
    Cardinality({j \in a..i : s[j] = "("}) - Cardinality({j \in a..i : s[j] = ")"})

\* the and/or connectors of the where clause that stand outside parentheses
TopLevelConnectors(q) ==
    LET lq == Lower(q)
        a == WordPos(lq, kw_where) + Len(kw_where)
        ends == {i \in a..Len(lq) :
                    \/ IsWordAt(lq, <<"o","r","d","e","r">>, i)
                    \/ IsWordAt(lq, <<"g","r","o","u","p">>, i)
                    \/ IsWordAt(lq, kw_limit, i)}
        b == IF ends = {} THEN Len(lq)
             ELSE (CHOOSE i \in ends : \A j \in ends : i <= j) - 1
    IN  Cardinality({i \in a..b :
            /\ IsWordAt(lq, kw_and, i) \/ IsWordAt(lq, kw_or, i)
            /\ Depth(lq, a, i) = 0})

\* C3 as stated: a query with a where clause that breaks no other rule passes
\* when the where clause has at most 24 top-level and/or connectors and fails
\* with the criteria-count reason when it has 25 or more.
C3_CriteriaRule ==
    (Validated /\ HasWhereClause(query) /\ verdict \in {"ok", "TooManyCriteria"}) =>
        /\ TopLevelConnectors(query) <= 24 => verdict = "ok"
        /\ TopLevelConnectors(query) >= 25 => verdict = "TooManyCriteria"

\* the end of the field list: the position before the first from
FieldListEnd(q) == Find(Lower(q), kw_from, 1) - 1

\* the commas of the field list (the text between the leading select and the
\* first from) and its two ends
FieldSeparators(q) ==
    {6, FieldListEnd(q) + 1} \cup {i \in 7..FieldListEnd(q) : q[i] = ","}

\* number of comma-separated field expressions of the field list
FieldExprCount(q) == Cardinality(FieldSeparators(q)) - 1

\* some field expression of the field list holds at least n '.' characters
SomeFieldHasDots(q, n) ==
    LET seps == FieldSeparators(q)
    IN  \E a \in seps :
            /\ \E c \in seps : c > a
            /\ LET b == CHOOSE c \in seps : c > a /\ \A d \in seps : d > a => c <= d
               IN  Cardinality({i \in (a + 1)..(b - 1) : q[i] = "."}) >= n

----------------------------------------------------------------------------
(* Claims about the executor (checked under SpecExecutor)                    *)

Done(c) == pc[c] = "done"

\* the first query call of c was answered unauthorized
FirstUnauthorized(c) == Len(calls[c]) >= 1 /\ calls[c][1].status = 401

\* the refreshes c made in response to an unauthorized reply
UnauthorizedRefreshes(c) ==
    {i \in 1..Len(refreshes[c]) : refreshes[c][i].cause = "unauthorized"}

\* C6 as stated: an unauthorized reply to the first query call causes exactly
\* one token refresh and exactly one retry; a second unauthorized reply is a
\* terminal failure; there is never a third query call nor a second refresh on
\* unauthorized.
C6_ExactlyOneRetry ==
    \A c \in Calls :
        /\ Len(calls[c]) <= 2
        /\ Cardinality(UnauthorizedRefreshes(c)) <= 1
        /\ (Done(c) /\ FirstUnauthorized(c)) =>
              /\ Cardinality(UnauthorizedRefreshes(c)) = 1
              /\ Len(calls[c]) = 2
              /\ calls[c][2].status = 401 => outcome[c] = "raised"

\* C6 amended: an unauthorized reply to the first query call causes exactly
\* one token refresh attempt; when that refresh succeeds the query call is
\* retried exactly once, and when it fails the call ends in failure with no
\* retry; a second unauthorized reply is a terminal failure; there is never a
\* third query call nor a second refresh on unauthorized.
C6_OneRefreshThenRetry ==
    \A c \in Calls :
        /\ Len(calls[c]) <= 2
        /\ Cardinality(UnauthorizedRefreshes(c)) <= 1
        /\ (Done(c) /\ FirstUnauthorized(c)) =>
              /\ Cardinality(UnauthorizedRefreshes(c)) = 1
              /\ LET r == refreshes[c][Len(refreshes[c])]
                 IN  /\ r.cause = "unauthorized"
                     /\ r.ok => Len(calls[c]) = 2
                     /\ ~r.ok => (Len(calls[c]) = 1 /\ outcome[c] = "raised")
              /\ (Len(calls[c]) = 2 /\ calls[c][2].status = 401) => outcome[c] = "raised"

C6_Witness ==
    \E c \in Calls :
        /\ Done(c)
        /\ Len(calls[c]) = 2
        /\ calls[c][1].status = 401
        /\ calls[c][2].status = 401
        /\ Cardinality(UnauthorizedRefreshes(c)) = 1
        /\ outcome[c] = "raised"

\* first call unauthorized, refresh succeeded, retried call answered 200
RetrySucceeded(c) ==
    /\ Done(c)
    /\ Len(calls[c]) = 2
    /\ calls[c][1].status = 401
    /\ calls[c][2].status = 200

\* C7 as stated: when the first query call is unauthorized, the refresh
\* succeeds and the retried call succeeds, the value returned is the retried
\* call's payload and exactly one token refresh occurred during the call.
C7_ExactlyOneRefresh ==
    \A c \in Calls :
        RetrySucceeded(c) =>
            /\ outcome[c] = "returned"
            /\ payload[c] = 2
            /\ Len(refreshes[c]) = 1

\* C7 amended: in that case the value returned is the retried call's payload
\* and exactly one token refresh occurred in response to the unauthorized
\* reply; it is the only refresh of the call when the call was entered holding
\* a token, and the second one when the call was entered holding none.
C7_RetryPayload ==
    \A c \in Calls :
        RetrySucceeded(c) =>
            /\ outcome[c] = "returned"
            /\ payload[c] = 2
            /\ Cardinality(UnauthorizedRefreshes(c)) = 1
            /\ \A i \in 1..Len(refreshes[c]) : refreshes[c][i].ok
            /\ Len(refreshes[c]) = IF heldAtEntry[c] THEN 1 ELSE 2

C7_Witness ==
    \E c \in Calls :
        /\ RetrySucceeded(c)
        /\ heldAtEntry[c]
        /\ outcome[c] = "returned"
        /\ Len(refreshes[c]) = 1

\* C8 as stated: every query call ZohoCoqlExecutor sends, the first one and
\* the retry, is sent with a bounded timeout.
C8_BoundedTimeout ==
    klass = "ZohoCoqlExecutor" =>
        \A c \in Calls : \A i \in 1..Len(calls[c]) : calls[c][i].timeout # NoTimeout

\* C9: no query call is ever sent with no access token held; a call entered
\* with no token refreshes before its first query call, and when that refresh
\* fails the call fails without sending any query call.
C9_TokenBeforeCall ==
    \A c \in Calls :
        /\ \A i \in 1..Len(calls[c]) : calls[c][i].with_token
        /\ (~heldAtEntry[c] /\ calls[c] # << >>) =>
              (refreshes[c] # << >> /\ refreshes[c][1] = [cause |-> "no_token", ok |-> TRUE])
        /\ (refreshes[c] # << >> /\ refreshes[c][1] = [cause |-> "no_token", ok |-> FALSE]) =>
              (calls[c] = << >> /\ Done(c) /\ outcome[c] = "raised")

C9_Witness ==
    \E c \in Calls :
        /\ ~heldAtEntry[c]
        /\ refreshes[c] = <<[cause |-> "no_token", ok |-> FALSE]>>
        /\ calls[c] = << >>
        /\ outcome[c] = "raised"

----------------------------------------------------------------------------
(* Claims about the converter (checked under SpecConvert)                    *)

Rejections ==
    {"MustStartWithSelect", "NoFrom", "TooManyFields", "TooManyCriteria",
     "LimitExceeded", "LimitNotANumber", "LimitIndexError", "TooManyJoins",
     "NotAString"}

\* C10: convert_to_coql returns a record only when its query field passed
\* validate_coql_query; a validation failure leaves convert_to_coql as an
\* error, which the handler answers with 400; the query handed to the executor
\* is the validated one, so it starts with select, holds at most 50 field
\* expressions and no field expression with more than 2 '.' characters.
C10_OnlyValidatedQueries ==
    /\ cpc = "returned" =>
          (verdict = "ok" /\ query_data.q = JStr(query))
    /\ verdict \in Rejections =>
          (cpc = "raised" /\ apc # "execute" /\ coql_query = << >>)
    /\ apc = "execute" =>
          /\ cpc = "returned"
          /\ verdict = "ok"
          /\ coql_query = query
          /\ BeginsWithSelect(coql_query)
          /\ FieldExprCount(coql_query) <= 50
          /\ ~SomeFieldHasDots(coql_query, 3)

C10_Witness ==
    /\ verdict \in Rejections
    /\ cpc = "raised"
    /\ apc = "responded"
    /\ status_code = 400

\* the parser has run on an LLM reply
ParserRan == reply # NoRecord /\ cpc # "parse"

\* the reply is a single record holding the query field, or a sequence of
\* exactly one such record
SingleRecordShape(r) ==
    \/ r.t = "obj" /\ r.has
    \/ r.t = "list" /\ Len(r.items) = 1 /\ r.items[1].t = "obj" /\ r.items[1].has

\* C11 as stated: the parser accepts the LLM reply exactly when it is a single
\* record or a single-element sequence of one record, with the query field
\* present; every other shape (empty sequence, sequence of more than one
\* element, non-record value, record without the query field, malformed text)
\* raises and yields no converted query; the LLM call is made at most once.
C11_SingleRecordOnly ==
    /\ llm_calls <= 1
    /\ ParserRan =>
          /\ query_data # NoRecord <=> SingleRecordShape(reply)
          /\ query_data = NoRecord => (cpc = "raised" /\ apc # "execute")

----------------------------------------------------------------------------
(* Claims about the request handler (checked under SpecHandler)              *)

StageOrder == <<"convert", "execute", "process">>

IsPrefix(a, b) == Len(a) <= Len(b) /\ \A i \in 1..Len(a) : a[i] = b[i]

Responded == apc = "responded"

ConvertSucceeded == cpc = "returned" /\ coql_query # << >>

ExecuteSucceeded == outcome[HandlerCall] = "returned"

ProcessSucceeded == result # NoRecord /\ result.status = "success"

\* the processing stage ended without a result: the envelope could not be
\* read, or process_response reported an error
ProcessFailed ==
    /\ Len(stages) = 3
    /\ \/ envelope.t # "obj"
       \/ result # NoRecord /\ result.status = "error"

\* the message of the 400 response of each stage
StageMessages(stage) ==
    IF stage = "convert"
    THEN {"Failed to convert natural language to COQL", "Failed to generate COQL query"}
    ELSE IF stage = "execute" THEN {"Failed to execute query in Zoho CRM"}
    ELSE {"Failed to process query response"}

\* the stage that failed in a call that entered its stages ("none" otherwise)
FailedStage ==
    IF stages = << >> THEN "none"
    ELSE IF ~ConvertSucceeded THEN "convert"
    ELSE IF Len(stages) >= 2 /\ ~ExecuteSucceeded THEN "execute"
    ELSE IF ProcessFailed THEN "process"
    ELSE "none"

\* C12 as stated: the stages run in the order convert, execute, process, each
\* at most once; a stage runs only if every earlier stage succeeded; a failed
\* stage ends the call with a 400 response carrying that stage's message and
\* no later stage runs; the success envelope is returned only when all three
\* stages succeeded.
C12_StagesShortCircuit ==
    /\ IsPrefix(stages, StageOrder)
    /\ Len(stages) >= 2 => ConvertSucceeded
    /\ Len(stages) >= 3 => ExecuteSucceeded
    /\ (Responded /\ FailedStage # "none") =>
          /\ status_code = 400
          /\ answer.error \in StageMessages(FailedStage)
          /\ stages[Len(stages)] = FailedStage
    /\ (Responded /\ answer.status = "success") =>
          (ConvertSucceeded /\ ExecuteSucceeded /\ ProcessSucceeded)

\* C13 as stated: a call whose natural_query field is missing or empty ends
\* with a 400 response carrying an error message, and no LLM call, token
\* refresh or remote query call is made for it.
C13_NoQueryNoCalls ==
    (Responded /\ body.natural_query # "text") =>
        /\ status_code = 400
        /\ answer.error # ""
        /\ llm_calls = 0
        /\ summary_calls = << >>
        /\ calls[HandlerCall] = << >>
        /\ refreshes[HandlerCall] = << >>

\* the envelope returned by execute_coql holds no records
HoldsNoRecords(env) == env.t = "obj" /\ (~env.has_data \/ env.n = 0)

\* C14: when the envelope holds no records (the data list is missing or
\* empty), the call is answered with the no-data body, whose message no other
\* answer carries and which is not the 400 response of a stage failure;
\* process_response is not called and no summarization call is made.
C14_NoDataOutcome ==
    /\ (Len(stages) = 3 /\ HoldsNoRecords(envelope)) =>
          /\ summary_calls = << >>
          /\ result = NoRecord
          /\ Responded
          /\ answer = NoDataBody
          /\ status_code = 200
    /\ (Responded /\ answer.message = NoDataBody.message) =>
          (Len(stages) = 3 /\ HoldsNoRecords(envelope))

C14_Witness ==
    /\ Responded
    /\ envelope.t = "obj" /\ envelope.has_data /\ envelope.n = 0
    /\ answer = NoDataBody
    /\ summary_calls = << >>

SomeSummaryFailed == \E i \in 1..Len(summary_calls) : ~summary_calls[i].ok

\* C15: when either summarization call fails, process_response returns a
\* failure holding neither the narrative nor the tabular analysis, and no
\* further summarization call is made; a result with success status holds both
\* analyses, was built after both calls succeeded, and its record count is
\* the number of records of the envelope.
C15_NoPartialResult ==
    /\ SomeSummaryFailed =>
          /\ result # NoRecord
          /\ result.status = "error"
          /\ ~result.narrative /\ ~result.tabular
          /\ ~summary_calls[Len(summary_calls)].ok
          /\ \A i \in 1..(Len(summary_calls) - 1) : summary_calls[i].ok
    /\ (result # NoRecord /\ result.status = "success") =>
          /\ result.narrative /\ result.tabular
          /\ result.record_count = envelope.n
          /\ envelope.n >= 1
          /\ summary_calls = <<[kind |-> "narrative", ok |-> TRUE],
                               [kind |-> "tabular", ok |-> TRUE]>>

C15_Witness ==
    /\ Responded
    /\ summary_calls = <<[kind |-> "narrative", ok |-> TRUE],
                         [kind |-> "tabular", ok |-> FALSE]>>
    /\ result.status = "error"
    /\ answer.message = "Failed to generate analysis"
    /\ answer.status = "error"

----------------------------------------------------------------------------
(* Claims about the record formatting (checked under SpecFormat)             *)

Formatted == apc = "formatted"

\* the field name holds amount, value, price or revenue, in any letter case
HasCurrencyName(key) ==
    LET k == Lower(key)
    IN  \/ Contains(k, <<"a","m","o","u","n","t">>)
        \/ Contains(k, <<"v","a","l","u","e">>)
        \/ Contains(k, <<"p","r","i","c","e">>)
        \/ Contains(k, <<"r","e","v","e","n","u","e">>)

\* the hundredths a currency string stands for: its digits, read without the
\* prefix, the sign and the separators
CurrencyValue(chars) ==
    LET d == SelectSeq(chars, IsDigit)
    IN  DigitsValue(d, Len(d))

\* f is the currency-prefixed string of the number v
IsCurrencyOf(f, v) ==
    /\ f.t = "str"
    /\ f.s # << >> /\ f.s[1] = "$"
    /\ Len(f.s) >= 5 /\ f.s[Len(f.s) - 2] = "."
    /\ CurrencyValue(f.s) = (IF v.n < 0 THEN 0 - v.n ELSE v.n)
    /\ (v.n < 0) <=> (f.s[2] = "-")

\* C16 as stated: for every field of the record, when its name holds a
\* currency term and its value is a number the formatted record holds the
\* currency-prefixed string of it; when the value is no number (text, null,
\* anything else) the formatted record holds the value unchanged; a field
\* with another name is unchanged.
C16_CurrencyFormatting ==
    Formatted =>
        /\ Len(formatted_record) = Len(record)
        /\ \A i \in 1..Len(record) :
              LET k == record[i][1]
                  v == record[i][2]
                  f == formatted_record[i][2]
              IN  /\ formatted_record[i][1] = k
                  /\ (HasCurrencyName(k) /\ v.t = "num") => IsCurrencyOf(f, v)
                  /\ (HasCurrencyName(k) /\ v.t # "num") => f = v
                  /\ ~HasCurrencyName(k) => f = v

----------------------------------------------------------------------------
(* Claims about the shared token (checked under SpecExecutor)                *)

\* call c stores the token of its refresh in this step
Stores(c) == pc[c] = "storing" /\ pc'[c] = "calling"

\* call c's refresh fails in this step
RefreshFails(c) == pc[c] = "refreshing" /\ pc'[c] = "done"

\* c was answered unauthorized, refreshed with success, and is retrying
Retrying(c) ==
    /\ pc[c] \in {"calling", "waiting"}
    /\ attempt[c] = 2
    /\ \E i \in UnauthorizedRefreshes(c) : refreshes[c][i].ok

\* C17: with execute_coql calls interleaved on one executor, every call makes
\* at most one refresh in response to an unauthorized reply and sends at most
\* two query calls, and every refresh that completes overwrites the held token
\* with its own, so the token held after concurrent refreshes is the one of
\* the refresh that completed last.
C17_LastWriteWins ==
    /\ [](\A c \in Calls :
            /\ Cardinality(UnauthorizedRefreshes(c)) <= 1
            /\ Len(calls[c]) <= 2)
    /\ [][\A c \in Calls : Stores(c) => access_token' = pending[c]]_vars

\* two calls are retrying after concurrent refreshes, and the token held is
\* the one issued to one of them
C17_Witness ==
    \E c, d \in Calls :
        /\ c # d
        /\ Retrying(c) /\ Retrying(d)
        /\ access_token = IssuedToken(d)

\* C18: the held token changes only in the step that stores the token of a
\* successful refresh; a failed refresh leaves it as it was; no other step of
\* execute_coql changes it; once a token is held it is never reset to empty.
C18_TokenChangesOnlyByRefresh ==
    [][ /\ access_token' # access_token =>
              \E c \in Calls :
                  /\ Stores(c)
                  /\ access_token' = pending[c]
                  /\ refreshes'[c][Len(refreshes'[c])].ok
        /\ \A c \in Calls : RefreshFails(c) => access_token' = access_token
        /\ access_token # NoToken => access_token' # NoToken ]_vars

\* a refresh has failed while a token was held, and the token is still held
C18_Witness ==
    \E c \in Calls :
        /\ Done(c)
        /\ refreshes[c] # << >>
        /\ refreshes[c][Len(refreshes[c])] = [cause |-> "unauthorized", ok |-> FALSE]
        /\ access_token # NoToken

====
